---- MODULE Spec2Model ----
(***************************************************************************)
(* Model of pink_telegram_transcriber: the whitelist check and document    *)
(* classification of handle_media, the asyncio media queue, and the single *)
(* media_worker task that downloads, transcodes, transcribes and replies.  *)
(*                                                                         *)
(* Every action is one run of a coroutine from the point where it is       *)
(* resumed (an awaited call returns, raises or is cancelled) to the next   *)
(* await.  External calls (Telegram, ffmpeg, the transcriber, os.remove)   *)
(* succeed or fail nondeterministically.                                   *)
(*                                                                         *)
(* Strings the code takes apart (file names, extensions) are sequences of  *)
(* one-character strings; None and "" are both falsy wherever the code     *)
(* tests them, and are both the empty sequence / empty string here.        *)
(***************************************************************************)
EXTENDS Integers, Sequences, FiniteSets, TLC

(* ------------------------------ bounds --------------------------------- *)

\* number of inbound media updates delivered to handle_media in one run
MaxUpdates == 2

\* number of external calls (Telegram, ffmpeg, transcriber, os.remove) that
\* fail in one run
MaxFaults == 2

(* --------------------------- config.py --------------------------------- *)

ALLOWED_USER_IDS == {101, 102}

\* a whitelist check that lets every sender through
is_user_allowed_open(user_id) == user_id # 0

is_user_allowed(user_id) == user_id \in ALLOWED_USER_IDS

SUPPORTED_AUDIO_MIMES ==
    { "audio/mpeg", "audio/mp4", "audio/x-m4a", "audio/mp3", "audio/wav",
      "audio/x-wav", "audio/wave", "audio/ogg", "audio/opus", "audio/flac",
      "audio/x-flac", "audio/aac", "audio/aacp", "audio/amr", "audio/3gpp",
      "audio/webm", "audio/wma", "audio/x-ms-wma" }

SUPPORTED_VIDEO_MIMES ==
    { "video/mp4", "video/mpeg", "video/quicktime", "video/x-matroska",
      "video/webm", "video/x-msvideo", "video/x-flv", "video/3gpp",
      "video/3gpp2" }

AUDIO_EXTENSIONS ==
    { <<".","m","p","3">>, <<".","m","4","a">>, <<".","w","a","v">>,
      <<".","o","g","g">>, <<".","o","p","u","s">>, <<".","f","l","a","c">>,
      <<".","a","a","c">>, <<".","a","m","r">>, <<".","w","m","a">>,
      <<".","w","e","b","m">> }

VIDEO_EXTENSIONS ==
    { <<".","m","p","4">>, <<".","a","v","i">>, <<".","m","o","v">>,
      <<".","m","k","v">>, <<".","w","e","b","m">>, <<".","f","l","v">>,
      <<".","3","g","p">>, <<".","3","g","2">>, <<".","m","p","e","g">>,
      <<".","m","p","g">> }

(* ------------------- pathlib / str helpers used by bot.py -------------- *)

UpperCase == <<"A","B","C","D","E","F","G","H","I","J","K","L","M",
               "N","O","P","Q","R","S","T","U","V","W","X","Y","Z">>
LowerCase == <<"a","b","c","d","e","f","g","h","i","j","k","l","m",
               "n","o","p","q","r","s","t","u","v","w","x","y","z">>

\* str.lower() on one character
LowerChar(c) ==
    IF \E i \in 1..26 : UpperCase[i] = c
    THEN LowerCase[CHOOSE i \in 1..26 : UpperCase[i] = c]
    ELSE c

\* str.lower()
Lower(s) == [i \in 1..Len(s) |-> LowerChar(s[i])]

\* str.rfind('.') as a 1-based position, 0 when there is no dot
RFindDot(s) ==
    LET I == {i \in 1..Len(s) : s[i] = "."}
    IN  IF I = {} THEN 0 ELSE CHOOSE i \in I : \A k \in I : k <= i

\* PurePath.suffix of a single path component: the text from the last dot,
\* unless that dot is the first or the last character of the name
Suffix(name) ==
    LET p == RFindDot(name)
    IN  IF p > 1 /\ p < Len(name) THEN SubSeq(name, p, Len(name)) ELSE <<>>

(* --------------------------- bot.py classifier ------------------------- *)

\* an audio check that looks at the file name only
is_audio_file_by_name(mime_type, file_name) ==
    IF file_name # <<>> THEN Lower(Suffix(file_name)) \in AUDIO_EXTENSIONS
    ELSE FALSE

is_audio_file(mime_type, file_name) ==
    IF mime_type # "" /\ mime_type \in SUPPORTED_AUDIO_MIMES THEN TRUE
    ELSE IF file_name # <<>> THEN Lower(Suffix(file_name)) \in AUDIO_EXTENSIONS
    ELSE FALSE

\* a video check that compares the suffix as written, without lower()
is_video_file_case(mime_type, file_name) ==
    IF mime_type # "" /\ mime_type \in SUPPORTED_VIDEO_MIMES THEN TRUE
    ELSE IF file_name # <<>> THEN Suffix(file_name) \in VIDEO_EXTENSIONS
    ELSE FALSE

\* a video check that takes every named file for a video
is_video_file_named(mime_type, file_name) ==
    IF mime_type # "" /\ mime_type \in SUPPORTED_VIDEO_MIMES THEN TRUE
    ELSE file_name # <<>>

is_video_file(mime_type, file_name) ==
    IF mime_type # "" /\ mime_type \in SUPPORTED_VIDEO_MIMES THEN TRUE
    ELSE IF file_name # <<>> THEN Lower(Suffix(file_name)) \in VIDEO_EXTENSIONS
    ELSE FALSE

(* ------------------------------ messages ------------------------------- *)

\* the text of an outbound message; "of" is the file_id the text was made
\* for (0 for the fixed texts), "why" the str(e) of an error text
Txt(kind, of, why) == [kind |-> kind, of |-> of, why |-> why]

NoText            == Txt("none", 0, "")
ACCESS_DENIED     == Txt("access_denied", 0, "")
UNSUPPORTED       == Txt("unsupported_format", 0, "")
PROCESSING_VIDEO  == Txt("processing_video", 0, "")
TRANSCRIBING      == Txt("transcribing", 0, "")
EXTRACTING_AUDIO  == Txt("extracting_audio", 0, "")
Transcript(fid)   == Txt("transcript", fid, "")
ErrorText(fid, e) == Txt("error", fid, e)

\* the default file names handle_media gives to media that has none
VOICE_OGG      == <<"v","o","i","c","e",".","o","g","g">>
VIDEO_NOTE_MP4 == <<"v","i","d","e","o","_","n","o","t","e",".","m","p","4">>
AUDIO_MP3      == <<"a","u","d","i","o",".","m","p","3">>
VIDEO_MP4      == <<"v","i","d","e","o",".","m","p","4">>

(* --------------------------- inbound updates --------------------------- *)

MsgIds == 1..MaxUpdates

\* senders: the whitelisted users and one stranger
Users == ALLOWED_USER_IDS \cup {999}

Upd(m, uid, kind, mime, name) ==
    [message_id |-> m, user_id |-> uid, kind |-> kind,
     mime_type |-> mime, file_name |-> name]

NoUpdate == Upd(0, 0, "", "", <<>>)

\* the updates that can arrive as message m in the queue specification:
\* from the whitelisted users a voice note, a video note, a document that
\* becomes a job and one that does not; from the stranger every media type
Updates(m) ==
    { Upd(m, 101, "voice", "", <<>>),
      Upd(m, 101, "video_note", "", <<>>),
      Upd(m, 101, "document", "video/mp4", <<"a",".","m","p","3">>),
      Upd(m, 101, "document", "application/pdf", <<"a",".","t","x","t">>),
      Upd(m, 102, "voice", "", <<>>),
      Upd(m, 999, "voice", "", <<>>),
      Upd(m, 999, "video_note", "", <<>>),
      Upd(m, 999, "audio", "", <<>>),
      Upd(m, 999, "video", "", <<>>),
      Upd(m, 999, "document", "audio/mpeg", <<>>) }

(* ------------------------------- state --------------------------------- *)

VARIABLES
    nextId,            \* message_id of the next inbound update
    lastUpdate,        \* the update of the latest handle_media call
    phase,             \* run_bot: "running", "cancelling", "stopped"
    h,                 \* the handle_media coroutine: its position and locals
    media_queue,       \* asyncio.Queue items, head first
    unfinished_tasks,  \* asyncio.Queue's count of put() minus task_done()
    worker,            \* per worker task: position and locals of media_worker
    files,             \* the temp files that exist
    statusText,        \* per message: text of its status message, or NoText
    replies,           \* per message: the reply_text calls other than the one
                       \*   that creates the status message, oldest first
    delivered,         \* per message: outcomes that reached the sender
    enqOrder,          \* message ids in the order of media_queue.put
    startOrder,        \* message ids in the order of media_queue.get
    doneOrder,         \* message ids in the order of media_queue.task_done
    faults             \* external calls that failed so far

vars == <<nextId, lastUpdate, phase, h, media_queue, unfinished_tasks, worker, files,
          statusText, replies, delivered, enqOrder, startOrder, doneOrder,
          faults>>

\* two media_worker tasks consuming the same queue
WorkersTwo == {"w1", "w2"}

\* post_init starts one media_worker task
Workers == {"w1"}

\* the inbound message of an update, as far as the code reads it
Message(u) == [message_id |-> u.message_id, user_id |-> u.user_id, kind |-> u.kind]

NoMessage == [message_id |-> 0, user_id |-> 0, kind |-> ""]

NoJob == [file_id |-> 0, message |-> NoMessage,
          status_msg |-> 0, is_video |-> FALSE, file_name |-> <<>>]

NoPath == [id |-> 0, tail |-> <<>>]

IdleWorker ==
    [pc |-> "get", job |-> NoJob, download_path |-> NoPath,
     audio_path |-> NoPath, transcribed_text |-> NoText, e |-> "",
     trace |-> <<>>]

IdleHandler ==
    [pc |-> "idle", message |-> NoMessage,
     mime_type |-> "", file_id |-> 0, is_video |-> FALSE, file_name |-> <<>>]

Init ==
    /\ nextId = 1
    /\ lastUpdate = NoUpdate
    /\ phase = "running"
    /\ h = IdleHandler
    /\ media_queue = <<>>
    /\ unfinished_tasks = 0
    /\ worker = [w \in Workers |-> IdleWorker]
    /\ files = {}
    /\ statusText = [m \in MsgIds |-> NoText]
    /\ replies = [m \in MsgIds |-> <<>>]
    /\ delivered = [m \in MsgIds |-> {}]
    /\ enqOrder = <<>>
    /\ startOrder = <<>>
    /\ doneOrder = <<>>
    /\ faults = 0

\* a call that fails is possible while the fault bound allows it
MayFail == faults < MaxFaults

(* ------------------------------ handle_media --------------------------- *)

\* the branch of handle_media that picks file_id, is_video and file_name:
\* "unsupported" for a document that is neither audio nor video
MediaOf(u) ==
    CASE u.kind = "voice" ->
           [file_id |-> u.message_id, is_video |-> FALSE, file_name |-> VOICE_OGG]
      [] u.kind = "video_note" ->
           [file_id |-> u.message_id, is_video |-> TRUE, file_name |-> VIDEO_NOTE_MP4]
      [] u.kind = "audio" ->
           [file_id |-> u.message_id, is_video |-> FALSE,
            file_name |-> IF u.file_name # <<>> THEN u.file_name ELSE AUDIO_MP3]
      [] u.kind = "video" ->
           [file_id |-> u.message_id, is_video |-> TRUE,
            file_name |-> IF u.file_name # <<>> THEN u.file_name ELSE VIDEO_MP4]
      [] OTHER ->
           IF is_audio_file(u.mime_type, u.file_name)
             THEN [file_id |-> u.message_id, is_video |-> FALSE, file_name |-> u.file_name]
           ELSE IF is_video_file(u.mime_type, u.file_name)
             THEN [file_id |-> u.message_id, is_video |-> TRUE, file_name |-> u.file_name]
           ELSE [file_id |-> 0, is_video |-> FALSE, file_name |-> u.file_name]

\* a reply_text call of the handler that ends the handler: text, and whether
\* Telegram accepted it
HandlerReply(m, text, ok) ==
    /\ replies' = [replies EXCEPT ![m] = Append(@, [text |-> text, ok |-> ok])]
    /\ faults' = IF ok THEN faults ELSE faults + 1

\* handle_media up to its first await that is followed by more code: the
\* whitelist check, the media type, and either a final reply (denial,
\* unsupported format) or the reply_text that creates the status message
HandleMedia(u, ok) ==
    /\ phase # "stopped"
    /\ h.pc = "idle"
    /\ nextId <= MaxUpdates
    /\ u.message_id = nextId
    /\ ok \/ MayFail
    /\ nextId' = nextId + 1
    /\ lastUpdate' = u
    /\ IF ~is_user_allowed(u.user_id)
         THEN /\ HandlerReply(u.message_id, ACCESS_DENIED, ok)
              /\ UNCHANGED h
       ELSE IF MediaOf(u).file_id = 0
         THEN /\ HandlerReply(u.message_id, UNSUPPORTED, ok)
              /\ UNCHANGED h
       ELSE /\ ok
            /\ h' = [pc |-> "status_reply",
                     message |-> Message(u),
                     mime_type |-> u.mime_type,
                     file_id |-> MediaOf(u).file_id,
                     is_video |-> MediaOf(u).is_video,
                     file_name |-> MediaOf(u).file_name]
            /\ UNCHANGED <<replies, faults>>
    /\ UNCHANGED <<phase, media_queue, unfinished_tasks, worker, files,
                   statusText, delivered, enqOrder, startOrder, doneOrder>>

\* a queue created with maxsize 1
QueueFullAtOne(q) == Len(q) >= 1

\* asyncio.Queue.full() of the queue post_init creates: asyncio.Queue() has
\* maxsize 0, it is never full and put() never waits
QueueFull(q) == FALSE

\* a put that drops the item when another one is waiting
QueuePutDropping(q, item) == IF q # <<>> THEN q ELSE Append(q, item)

\* a queue that hands out the newest item first
QueuePutFront(q, item) == <<item>> \o q

\* asyncio.Queue.put on the unbounded queue
QueuePut(q, item) == Append(q, item)

\* the reply_text that creates the status message returns: on success the
\* job is put on the queue, on failure the exception ends the handler
StatusReplyReturns(ok) ==
    /\ h.pc = "status_reply"
    /\ ok \/ MayFail
    /\ ok => ~QueueFull(media_queue)
    /\ LET m == h.message.message_id
       IN  IF ok
             THEN /\ statusText' = [statusText EXCEPT ![m] =
                        IF h.is_video THEN PROCESSING_VIDEO ELSE TRANSCRIBING]
                  /\ media_queue' = QueuePut(media_queue,
                        [file_id |-> h.file_id, message |-> h.message,
                         status_msg |-> m, is_video |-> h.is_video,
                         file_name |-> h.file_name])
                  /\ unfinished_tasks' = unfinished_tasks + 1
                  /\ enqOrder' = Append(enqOrder, m)
                  /\ UNCHANGED faults
             ELSE /\ faults' = faults + 1
                  /\ UNCHANGED <<statusText, media_queue, unfinished_tasks, enqOrder>>
    /\ h' = IdleHandler
    /\ UNCHANGED <<nextId, lastUpdate, phase, worker, files, replies, delivered,
                   startOrder, doneOrder>>

(* ------------------------------ media_worker --------------------------- *)

AUDIO_MP3_TAIL == <<"_","a","u","d","i","o",".","m","p","3">>
DOT_MP4        == <<".","m","p","4">>
DOT_MP3        == <<".","m","p","3">>

\* temp_dir / f"{message_id}{tail}"
TempPath(message_id, tail) == [id |-> message_id, tail |-> tail]

\* file_ext of a job: the suffix of its file name, else a default
FileExt(job) ==
    LET file_ext == IF job.file_name # <<>> THEN Suffix(job.file_name) ELSE <<>>
    IN  IF file_ext = <<>>
          THEN (IF job.is_video THEN DOT_MP4 ELSE DOT_MP3)
          ELSE file_ext

DownloadPath(job) == TempPath(job.message.message_id, FileExt(job))

AudioPath(job) ==
    IF job.is_video
      THEN TempPath(job.message.message_id, AUDIO_MP3_TAIL)
      ELSE DownloadPath(job)

\* asyncio.Queue.get: the item at the head
QueueGet(q) == Head(q)

QueueRest(q) == Tail(q)

Called(wk, op, res) == [wk EXCEPT !.trace = Append(@, <<op, res>>)]

\* the result of running a worker from a resumption to its next await:
\* its locals, the files, the number of calls that failed on the way, and
\* whether the finally block (task_done) was reached
Run(wk, fs, failed, done) ==
    [wk |-> wk, files |-> fs, failed |-> failed, done |-> done]

\* an except block that starts the job over instead of reporting the error
ErrorPathRetry(wk0, fs, e, rm1, rm2, failed) ==
    Run([wk0 EXCEPT !.e = e, !.pc = "get_file"], fs, failed, FALSE)

\* an except block that reports the error without removing the temp files
ErrorPathNoCleanup(wk0, fs, e, rm1, rm2, failed) ==
    Run([wk0 EXCEPT !.e = e, !.pc = "edit_error"], fs, failed, FALSE)

\* the "except Exception as e" block, entered with exception e while the
\* files fs exist: remove the download, remove the extracted audio of a
\* video, then await the edit of the status message to the error text.
\* rm1, rm2: whether the os.remove of the download / the audio succeeds.
\* An os.remove that raises leaves the block through finally.
ErrorPath(wk0, fs, e, rm1, rm2, failed) ==
    LET wk     == [wk0 EXCEPT !.e = e]
        hasDl  == wk.download_path \in fs
        wk1    == IF hasDl
                    THEN Called(wk, "remove_download", IF rm1 THEN "ok" ELSE "error")
                    ELSE wk
        fs1    == IF hasDl /\ rm1 THEN fs \ {wk.download_path} ELSE fs
        hasAud == wk.job.is_video /\ wk.audio_path \in fs1
        wk2    == IF hasAud
                    THEN Called(wk1, "remove_audio", IF rm2 THEN "ok" ELSE "error")
                    ELSE wk1
        fs2    == IF hasAud /\ rm2 THEN fs1 \ {wk.audio_path} ELSE fs1
    IN  IF hasDl /\ ~rm1
          THEN Run([wk1 EXCEPT !.pc = "get"], fs1, failed + 1, TRUE)
        ELSE IF hasAud /\ ~rm2
          THEN Run([wk2 EXCEPT !.pc = "get"], fs2, failed + 1, TRUE)
        ELSE Run([wk2 EXCEPT !.pc = "edit_error"], fs2, failed, FALSE)

\* the os.remove outcomes that make a difference when the files fs exist
RemoveChoices(wk, fs, rm1, rm2) ==
    /\ rm1 \/ wk.download_path \in fs
    /\ rm2 \/ (wk.job.is_video /\ wk.audio_path \in fs)

\* a worker without the finally block: the job is never marked done
TaskDoneSkipped(message_id) == UNCHANGED <<unfinished_tasks, doneOrder>>

\* media_queue.task_done() in the finally block
TaskDone(message_id) ==
    /\ unfinished_tasks' = unfinished_tasks - 1
    /\ doneOrder' = Append(doneOrder, message_id)

\* commit the result r of a run of worker w
Commit(w, r) ==
    /\ faults + r.failed <= MaxFaults
    /\ faults' = faults + r.failed
    /\ worker' = [worker EXCEPT ![w] = r.wk]
    /\ files' = r.files
    /\ IF r.done
         THEN TaskDone(worker[w].job.message.message_id)
         ELSE UNCHANGED <<unfinished_tasks, doneOrder>>
    /\ UNCHANGED <<nextId, lastUpdate, phase, h, media_queue, enqOrder, startOrder>>

\* a worker task on which cancel() has no effect
ResumesAnyPhase(w, pc) == worker[w].pc = pc

\* the worker is resumed normally only while its task is not cancelled
Resumes(w, pc) == worker[w].pc = pc /\ phase = "running"

\* media_queue.get() returns: the paths are computed and bot.get_file awaited
\* (temp_dir.mkdir with exist_ok is taken to succeed)
WorkerGet(w) ==
    /\ Resumes(w, "get")
    /\ media_queue # <<>>
    /\ LET job == QueueGet(media_queue)
       IN  /\ worker' = [worker EXCEPT ![w] =
                  [pc |-> "get_file", job |-> job,
                   download_path |-> DownloadPath(job),
                   audio_path |-> AudioPath(job),
                   transcribed_text |-> NoText, e |-> "", trace |-> <<>>]]
           /\ startOrder' = Append(startOrder, job.message.message_id)
    /\ media_queue' = QueueRest(media_queue)
    /\ UNCHANGED <<nextId, lastUpdate, phase, h, unfinished_tasks, files, statusText,
                   replies, delivered, enqOrder, doneOrder, faults>>

\* bot.get_file returns or raises
GetFileReturns(w, ok, rm1, rm2) ==
    /\ Resumes(w, "get_file")
    /\ LET wk == Called(worker[w], "get_file", IF ok THEN "ok" ELSE "error")
       IN  IF ok
             THEN /\ rm1 /\ rm2
                  /\ Commit(w, Run([wk EXCEPT !.pc = "download"], files, 0, FALSE))
             ELSE /\ RemoveChoices(wk, files, rm1, rm2)
                  /\ Commit(w, ErrorPath(wk, files, "get_file", rm1, rm2, 1))
    /\ UNCHANGED <<statusText, replies, delivered>>

\* a worker that skips the extraction of the audio
AfterDownloadDirect(job) == "transcribe"

\* the await that follows a successful download: "if is_video" enters the
\* extraction, otherwise the transcription comes next
AfterDownload(job) == IF job.is_video THEN "edit_extracting" ELSE "transcribe"

\* file.download_to_drive returns or raises; a failed download may leave a
\* partial file (wrote)
DownloadReturns(w, ok, wrote, rm1, rm2) ==
    /\ Resumes(w, "download")
    /\ LET wk == Called(worker[w], "download", IF ok THEN "ok" ELSE "error")
           fs == IF wrote THEN files \cup {wk.download_path} ELSE files
       IN  IF ok
             THEN /\ wrote /\ rm1 /\ rm2
                  /\ Commit(w, Run([wk EXCEPT !.pc = AfterDownload(wk.job)],
                                   fs, 0, FALSE))
             ELSE /\ RemoveChoices(wk, fs, rm1, rm2)
                  /\ Commit(w, ErrorPath(wk, fs, "download", rm1, rm2, 1))
    /\ UNCHANGED <<statusText, replies, delivered>>

EditResults == {"ok", "bad_request", "error"}

\* an edit that goes to the status message created last, as if the worker
\* read it from a variable the handler overwrites
EditedNewest(job, text) ==
    [statusText EXCEPT ![enqOrder[Len(enqOrder)]] = text]

\* status_msg.edit_text(text) took effect
Edited(job, text) == [statusText EXCEPT ![job.status_msg] = text]

\* edit_text("Extracting audio from video...") returns or raises; BadRequest
\* is passed over, then ffmpeg runs in the executor
EditExtractingReturns(w, res, rm1, rm2) ==
    /\ Resumes(w, "edit_extracting")
    /\ res \in EditResults
    /\ LET wk == Called(worker[w], "edit_extracting", res)
       IN  /\ statusText' = IF res = "ok" THEN Edited(wk.job, EXTRACTING_AUDIO)
                                         ELSE statusText
           /\ IF res = "error"
                THEN /\ RemoveChoices(wk, files, rm1, rm2)
                     /\ Commit(w, ErrorPath(wk, files, "edit_text", rm1, rm2, 1))
                ELSE /\ rm1 /\ rm2
                     /\ Commit(w, Run([wk EXCEPT !.pc = "ffmpeg"], files,
                                      IF res = "ok" THEN 0 ELSE 1, FALSE))
    /\ UNCHANGED <<replies, delivered>>

\* extract_audio_from_video returns its boolean (it never raises); a failed
\* ffmpeg may leave a partial output file (wrote).  On success the video is
\* removed (rm: whether that os.remove succeeds) and the status edited.
FfmpegReturns(w, success, wrote, rm, rm1, rm2) ==
    /\ Resumes(w, "ffmpeg")
    /\ LET wk == Called(worker[w], "ffmpeg", IF success THEN "ok" ELSE "error")
           fs == IF wrote THEN files \cup {wk.audio_path} ELSE files
       IN  IF ~success
             THEN /\ rm
                  /\ RemoveChoices(wk, fs, rm1, rm2)
                  /\ Commit(w, ErrorPath(wk, fs, "Failed to extract audio from video",
                                         rm1, rm2, 1))
           ELSE IF ~rm
             THEN /\ wrote
                  /\ RemoveChoices(wk, fs, rm1, rm2)
                  /\ Commit(w, ErrorPath(Called(wk, "remove_download", "error"),
                                         fs, "os.remove", rm1, rm2, 1))
           ELSE /\ wrote /\ rm1 /\ rm2
                /\ Commit(w, Run([Called(wk, "remove_download", "ok")
                                     EXCEPT !.pc = "edit_transcribing"],
                                 fs \ {wk.download_path}, 0, FALSE))
    /\ UNCHANGED <<statusText, replies, delivered>>

\* edit_text("Transcribing...") of a video job returns or raises
EditTranscribingReturns(w, res, rm1, rm2) ==
    /\ Resumes(w, "edit_transcribing")
    /\ res \in EditResults
    /\ LET wk == Called(worker[w], "edit_transcribing", res)
       IN  /\ statusText' = IF res = "ok" THEN Edited(wk.job, TRANSCRIBING)
                                         ELSE statusText
           /\ IF res = "error"
                THEN /\ RemoveChoices(wk, files, rm1, rm2)
                     /\ Commit(w, ErrorPath(wk, files, "edit_text", rm1, rm2, 1))
                ELSE /\ rm1 /\ rm2
                     /\ Commit(w, Run([wk EXCEPT !.pc = "transcribe"], files,
                                      IF res = "ok" THEN 0 ELSE 1, FALSE))
    /\ UNCHANGED <<replies, delivered>>

\* transcribe(audio_path) returns the text or raises; on success the audio
\* file is removed if it exists (rm) and the result edit is awaited
TranscribeReturns(w, ok, rm, rm1, rm2) ==
    /\ Resumes(w, "transcribe")
    /\ LET wk  == Called(worker[w], "transcribe", IF ok THEN "ok" ELSE "error")
           has == wk.audio_path \in files
           wkt == [wk EXCEPT !.transcribed_text = Transcript(wk.job.file_id)]
       IN  IF ~ok
             THEN /\ rm
                  /\ RemoveChoices(wk, files, rm1, rm2)
                  /\ Commit(w, ErrorPath(wk, files, "transcribe", rm1, rm2, 1))
           ELSE IF has /\ ~rm
             THEN /\ RemoveChoices(wkt, files, rm1, rm2)
                  /\ Commit(w, ErrorPath(Called(wkt, "remove_audio", "error"),
                                         files, "os.remove", rm1, rm2, 1))
           ELSE /\ rm /\ rm1 /\ rm2
                /\ Commit(w, Run([(IF has THEN Called(wkt, "remove_audio", "ok") ELSE wkt)
                                     EXCEPT !.pc = "edit_result"],
                                 files \ {wk.audio_path}, 0, FALSE))
    /\ UNCHANGED <<statusText, replies, delivered>>

\* a fallback taken after any failed edit ("except Exception")
FallsBackAlways(res) == res # "ok"

\* "except BadRequest": the results of the result edit after which the text
\* is sent as a new message
FallsBackToReply(res) == res = "bad_request"

\* edit_text(transcribed_text) returns or raises: on BadRequest the text is
\* sent with message.reply_text, any other exception enters the error path
EditResultReturns(w, res, rm1, rm2) ==
    /\ Resumes(w, "edit_result")
    /\ res \in EditResults
    /\ LET wk == Called(worker[w], "edit_result", res)
           m  == wk.job.message.message_id
       IN  /\ statusText' = IF res = "ok" THEN Edited(wk.job, wk.transcribed_text)
                                         ELSE statusText
           /\ delivered' = IF res = "ok"
                             THEN [delivered EXCEPT ![m] = @ \cup {"text"}]
                             ELSE delivered
           /\ CASE res = "ok" ->
                     /\ rm1 /\ rm2
                     /\ Commit(w, Run([wk EXCEPT !.pc = "get"], files, 0, TRUE))
                [] res # "ok" /\ FallsBackToReply(res) ->
                     /\ rm1 /\ rm2
                     /\ Commit(w, Run([wk EXCEPT !.pc = "reply_result"], files, 1, FALSE))
                [] OTHER ->
                     /\ RemoveChoices(wk, files, rm1, rm2)
                     /\ Commit(w, ErrorPath(wk, files, "edit_text", rm1, rm2, 1))
    /\ UNCHANGED replies

\* message.reply_text(transcribed_text) returns or raises
ReplyResultReturns(w, ok, rm1, rm2) ==
    /\ Resumes(w, "reply_result")
    /\ LET wk == Called(worker[w], "reply_result", IF ok THEN "ok" ELSE "error")
           m  == wk.job.message.message_id
       IN  /\ replies' = [replies EXCEPT ![m] =
                            Append(@, [text |-> wk.transcribed_text, ok |-> ok])]
           /\ delivered' = IF ok THEN [delivered EXCEPT ![m] = @ \cup {"text"}]
                                 ELSE delivered
           /\ IF ok
                THEN /\ rm1 /\ rm2
                     /\ Commit(w, Run([wk EXCEPT !.pc = "get"], files, 0, TRUE))
                ELSE /\ RemoveChoices(wk, files, rm1, rm2)
                     /\ Commit(w, ErrorPath(wk, files, "reply_text", rm1, rm2, 1))
    /\ UNCHANGED statusText

\* edit_text("Error: ...") in the except block returns or raises; an
\* exception leaves through finally to the outer "except Exception", which
\* prints it, and the loop goes on
EditErrorReturns(w, res) ==
    /\ Resumes(w, "edit_error")
    /\ res \in EditResults
    /\ LET wk == Called(worker[w], "edit_error", res)
           m  == wk.job.message.message_id
       IN  /\ statusText' = IF res = "ok"
                              THEN Edited(wk.job, ErrorText(wk.job.file_id, wk.e))
                              ELSE statusText
           /\ delivered' = IF res = "ok"
                             THEN [delivered EXCEPT ![m] = @ \cup {"error"}]
                             ELSE delivered
           /\ Commit(w, Run([wk EXCEPT !.pc = "get"], files,
                            IF res = "ok" THEN 0 ELSE 1, TRUE))
    /\ UNCHANGED replies

(* -------------------------------- run_bot ------------------------------ *)

\* a stop signal: run_bot cancels the worker task
Shutdown ==
    /\ phase = "running"
    /\ phase' = "cancelling"
    /\ UNCHANGED <<nextId, lastUpdate, h, media_queue, unfinished_tasks, worker, files,
                   statusText, replies, delivered, enqOrder, startOrder,
                   doneOrder, faults>>

\* the cancelled worker is resumed with CancelledError: inside a job only
\* the finally block runs (task_done), then the loop is left.  The call it
\* was waiting for may or may not have taken effect (applied).
WorkerCancelled(w, applied) ==
    /\ phase = "cancelling"
    /\ worker[w].pc # "exited"
    /\ LET pc == worker[w].pc
           wk == worker[w]
           m  == wk.job.message.message_id
           inJob == pc # "get"
       IN  /\ applied => pc \in {"download", "ffmpeg", "edit_extracting",
                                  "edit_transcribing", "edit_result",
                                  "reply_result", "edit_error"}
           /\ worker' = [worker EXCEPT ![w] =
                  [(IF inJob THEN Called(wk, pc, "cancelled") ELSE wk)
                      EXCEPT !.pc = "exited"]]
           /\ files' = IF applied /\ pc = "download" THEN files \cup {wk.download_path}
                       ELSE IF applied /\ pc = "ffmpeg" THEN files \cup {wk.audio_path}
                       ELSE files
           /\ statusText' =
                  IF ~applied THEN statusText
                  ELSE CASE pc = "edit_extracting" -> Edited(wk.job, EXTRACTING_AUDIO)
                         [] pc = "edit_transcribing" -> Edited(wk.job, TRANSCRIBING)
                         [] pc = "edit_result" -> Edited(wk.job, wk.transcribed_text)
                         [] pc = "edit_error" ->
                              Edited(wk.job, ErrorText(wk.job.file_id, wk.e))
                         [] OTHER -> statusText
           /\ replies' = IF applied /\ pc = "reply_result"
                           THEN [replies EXCEPT ![m] =
                                   Append(@, [text |-> wk.transcribed_text, ok |-> TRUE])]
                           ELSE replies
           /\ delivered' =
                  IF applied /\ pc \in {"edit_result", "reply_result"}
                    THEN [delivered EXCEPT ![m] = @ \cup {"text"}]
                  ELSE IF applied /\ pc = "edit_error"
                    THEN [delivered EXCEPT ![m] = @ \cup {"error"}]
                  ELSE delivered
           /\ IF inJob THEN TaskDone(m)
                       ELSE UNCHANGED <<unfinished_tasks, doneOrder>>
    /\ UNCHANGED <<nextId, lastUpdate, phase, h, media_queue, enqOrder, startOrder, faults>>

\* after the worker task has ended, run_bot stops the updater and the
\* application: no further update is handled
StopApplication ==
    /\ phase = "cancelling"
    /\ \A w \in Workers : worker[w].pc = "exited"
    /\ h.pc = "idle"
    /\ phase' = "stopped"
    /\ UNCHANGED <<nextId, lastUpdate, h, media_queue, unfinished_tasks, worker, files,
                   statusText, replies, delivered, enqOrder, startOrder,
                   doneOrder, faults>>

(* ---------------------------- specification ---------------------------- *)

\* updates are dispatched one at a time: the next one of the set arrives
\* when handle_media is not running and the run has updates left
Arriving(updates) ==
    IF h.pc = "idle" /\ nextId <= MaxUpdates /\ phase # "stopped"
      THEN updates ELSE {}

\* the await at which worker w is suspended
Awaiting(w, pc) == worker[w].pc = pc

\* the steps of the worker loop while its task is not cancelled: the call
\* the worker is suspended at returns or raises
JobStep(w) ==
    \/ WorkerGet(w)
    \/ /\ Awaiting(w, "get_file")
       /\ \E ok, rm1, rm2 \in BOOLEAN : GetFileReturns(w, ok, rm1, rm2)
    \/ /\ Awaiting(w, "download")
       /\ \E ok, wrote, rm1, rm2 \in BOOLEAN : DownloadReturns(w, ok, wrote, rm1, rm2)
    \/ /\ Awaiting(w, "edit_extracting")
       /\ \E res \in EditResults, rm1, rm2 \in BOOLEAN :
             EditExtractingReturns(w, res, rm1, rm2)
    \/ /\ Awaiting(w, "ffmpeg")
       /\ \E success, wrote, rm, rm1, rm2 \in BOOLEAN :
             FfmpegReturns(w, success, wrote, rm, rm1, rm2)
    \/ /\ Awaiting(w, "edit_transcribing")
       /\ \E res \in EditResults, rm1, rm2 \in BOOLEAN :
             EditTranscribingReturns(w, res, rm1, rm2)
    \/ /\ Awaiting(w, "transcribe")
       /\ \E ok, rm, rm1, rm2 \in BOOLEAN : TranscribeReturns(w, ok, rm, rm1, rm2)
    \/ /\ Awaiting(w, "edit_result")
       /\ \E res \in EditResults, rm1, rm2 \in BOOLEAN :
             EditResultReturns(w, res, rm1, rm2)
    \/ /\ Awaiting(w, "reply_result")
       /\ \E ok, rm1, rm2 \in BOOLEAN : ReplyResultReturns(w, ok, rm1, rm2)
    \/ /\ Awaiting(w, "edit_error")
       /\ \E res \in EditResults : EditErrorReturns(w, res)

WorkerStep(w) ==
    \/ JobStep(w)
    \/ \E applied \in BOOLEAN : WorkerCancelled(w, applied)

Next ==
    \/ \E u \in Arriving(Updates(nextId)), ok \in BOOLEAN : HandleMedia(u, ok)
    \/ \E ok \in BOOLEAN : StatusReplyReturns(ok)
    \/ \E w \in Workers : WorkerStep(w)
    \/ Shutdown
    \/ StopApplication

Spec == Init /\ [][Next]_vars

(* ------------------- specification of the worker's progress ------------ *)

\* the updates of this specification: an audio job, a video job and a
\* message that is turned away
LiveUpdates(m) ==
    { Upd(m, 101, "voice", "", <<>>),
      Upd(m, 101, "video_note", "", <<>>),
      Upd(m, 999, "voice", "", <<>>) }

\* no stop signal arrives: the handler and the worker loop alone
LiveNext ==
    \/ \E u \in Arriving(LiveUpdates(nextId)), ok \in BOOLEAN : HandleMedia(u, ok)
    \/ \E ok \in BOOLEAN : StatusReplyReturns(ok)
    \/ \E w \in Workers : JobStep(w)

\* every awaited call of the worker returns or raises in the end and the
\* event loop then resumes the worker task; a get() on a queue that holds an
\* item returns
LiveSpec == Init /\ [][LiveNext]_vars /\ \A w \in Workers : WF_vars(JobStep(w))

(* ----------------- specification of the document classifier ----------- *)

\* the content types a document is sent with: every known one, none, and
\* some that are in neither set (membership is case-sensitive)
DocMimes ==
    SUPPORTED_AUDIO_MIMES \cup SUPPORTED_VIDEO_MIMES
    \cup {"", "application/pdf", "application/octet-stream", "Audio/MPEG"}

\* the file names a document is sent with: none, one per known extension,
\* upper-case extensions, and names without a usable suffix
DocNames ==
    {<<>>}
    \cup { <<"a">> \o ext : ext \in AUDIO_EXTENSIONS \cup VIDEO_EXTENSIONS }
    \cup { <<"a",".","M","P","3">>, <<"a",".","M","k","v">>,
           <<"a",".","W","E","B","M">>, <<"a">>, <<".","m","p","4">>,
           <<"a",".">>, <<"a",".","m","p","3",".","t","x","t">>,
           <<"a",".","t","x","t">>, <<"a",".","m","p","4",".","m","p","3">>,
           <<"a",".","m","p","3",".","m","p","4">> }

DocUpdates(m) ==
    { Upd(m, 101, "document", mime, name) : mime \in DocMimes, name \in DocNames }

\* audio and video files, with and without a file name
FileUpdates(m) ==
    { Upd(m, 101, "audio", "", <<>>),
      Upd(m, 101, "audio", "", <<"a",".","m","p","4">>),
      Upd(m, 101, "video", "", <<>>),
      Upd(m, 101, "video", "", <<"a",".","m","p","3">>) }

\* the handler alone: the last update of the run is any document, the ones
\* before it fill the queue
ClassifierInputs(m) ==
    IF m < MaxUpdates THEN Updates(m) \cup FileUpdates(m) ELSE DocUpdates(m)

ClassifierNext ==
    \/ \E u \in Arriving(ClassifierInputs(nextId)), ok \in BOOLEAN : HandleMedia(u, ok)
    \/ \E ok \in BOOLEAN : StatusReplyReturns(ok)

ClassifierSpec == Init /\ [][ClassifierNext]_vars

(* ------------------------------ properties ----------------------------- *)

Range(s) == { s[i] : i \in DOMAIN s }

IsPrefix(s, t) == Len(s) <= Len(t) /\ \A i \in 1..Len(s) : s[i] = t[i]

\* the workers that hold a job: dequeued and task_done not yet called
Active == { w \in Workers : worker[w].pc \notin {"get", "exited"} }

ActiveIds == { worker[w].job.message.message_id : w \in Active }

QueuedIds == { media_queue[i].message.message_id : i \in DOMAIN media_queue }

\* C1: at most one job is being processed (dequeued by a worker and not yet
\* marked done with task_done); every other accepted job that is not done
\* waits in the queue, in exactly one place, and the queue's count of
\* unfinished tasks is the waiting jobs plus the one in progress.
C1_AtMostOneActive ==
    /\ Cardinality(Active) <= 1
    /\ Cardinality(ActiveIds) = Cardinality(Active)
    /\ \A m \in Range(enqOrder) :
          \/ m \in Range(doneOrder) /\ m \notin ActiveIds /\ m \notin QueuedIds
          \/ m \notin Range(doneOrder) /\ m \in ActiveIds /\ m \notin QueuedIds
          \/ m \notin Range(doneOrder) /\ m \notin ActiveIds /\ m \in QueuedIds
    /\ QueuedIds \cup ActiveIds \subseteq Range(enqOrder)
    /\ Cardinality(QueuedIds) = Len(media_queue)
    /\ unfinished_tasks = Len(media_queue) + Cardinality(Active)

\* a job is in progress while another accepted job waits in the queue
C1_Witness ==
    /\ Cardinality(Active) = 1
    /\ Len(media_queue) >= 1
    /\ \E w \in Active : worker[w].pc = "transcribe"

\* C2: jobs start in the order they were enqueued and complete in the order
\* they started; a job starts only when every job enqueued before it has
\* completed, whatever the interleaving of the steps and of the handler.
C2_Fifo ==
    /\ IsPrefix(startOrder, enqOrder)
    /\ IsPrefix(doneOrder, startOrder)
    /\ Len(startOrder) <= Len(doneOrder) + 1

\* two jobs were waiting together, the first a video (download, ffmpeg and
\* transcription) and the second an audio, and both completed
C2_Witness ==
    /\ Len(doneOrder) >= 2
    /\ statusText[doneOrder[1]].kind = "transcript"
    /\ statusText[doneOrder[2]].kind = "transcript"
    /\ \E w \in Workers : worker[w].pc = "get" /\ ~worker[w].job.is_video

\* the last call of worker w's trace
LastCall(w) == worker[w].trace[Len(worker[w].trace)]

\* the jobs whose processing was ended by the cancellation of the worker
CancelledIds ==
    { worker[w].job.message.message_id :
        w \in { v \in Workers : /\ worker[v].pc = "exited"
                                /\ worker[v].trace # <<>>
                                /\ LastCall(v)[2] = "cancelled" } }

\* the jobs that were processed to the end: marked done and not cancelled
FinishedIds == Range(doneOrder) \ CancelledIds

\* worker w has processed a job to the end and every os.remove it called
\* for the job succeeded
ProcessedCleanly(w) ==
    /\ worker[w].pc = "get"
    /\ worker[w].job.message.message_id \in FinishedIds
    /\ \A i \in DOMAIN worker[w].trace :
          worker[w].trace[i][1] \in {"remove_download", "remove_audio"}
             => worker[w].trace[i][2] = "ok"

\* C3: no job is dropped silently: a job that was processed to its end has
\* exactly one outcome delivered to its sender, the transcription or an
\* error message, never neither and never both.  (Stated for the jobs whose
\* temp files could all be removed; the claim makes no such exception.)
C3_NoSilentDrop ==
    \A w \in Workers :
        ProcessedCleanly(w)
           => Cardinality(delivered[worker[w].job.message.message_id]) = 1

\* no job has both outcomes delivered
NeverBothOutcomes ==
    \A m \in MsgIds : Cardinality(delivered[m]) <= 1

\* the step is a call of handle_media (only it takes the next update)
HandlerCalled == nextId' # nextId

\* the handler ended with reply text and left everything else as it was
OnlyReplied(m, text, ok) ==
    /\ replies' = [replies EXCEPT ![m] = Append(@, [text |-> text, ok |-> ok])]
    /\ h' = h
    /\ media_queue' = media_queue
    /\ unfinished_tasks' = unfinished_tasks
    /\ enqOrder' = enqOrder
    /\ statusText' = statusText

\* every job at hand belongs to a whitelisted sender
JobsOfAllowedSenders ==
    /\ \A i \in DOMAIN media_queue :
          media_queue[i].message.user_id \in ALLOWED_USER_IDS
    /\ \A w \in Active : worker[w].job.message.user_id \in ALLOWED_USER_IDS
    /\ h.pc = "status_reply" => h.message.user_id \in ALLOWED_USER_IDS

\* C4: handle_media on media of any type from a sender outside the
\* whitelist replies with the denial text and changes neither the queue nor
\* anything else (no status message, no pending job); every job in the
\* queue, in the handler or in the worker belongs to a whitelisted sender.
C4_DeniedNoJob ==
    [][ /\ (HandlerCalled /\ lastUpdate'.user_id \notin ALLOWED_USER_IDS)
              => \E ok \in BOOLEAN :
                    OnlyReplied(lastUpdate'.message_id, ACCESS_DENIED, ok)
        /\ JobsOfAllowedSenders' ]_vars

\* a stranger's document was denied while a job was waiting in the queue
C4_Witness ==
    \E m \in MsgIds :
        /\ lastUpdate = Upd(m, 999, "document", "audio/mpeg", <<>>)
        /\ replies[m] = <<[text |-> ACCESS_DENIED, ok |-> TRUE]>>
        /\ statusText[m] = NoText
        /\ m \notin Range(enqOrder)
        /\ Len(media_queue) >= 1
        /\ nextId > m

HasTranscript(rs) == \E i \in DOMAIN rs : rs[i].text.kind = "transcript"

\* C5: the transcription is delivered by an edit of the status message
\* first, right after the transcription (and the removal of the audio file)
\* succeeded; message.reply_text with the text is called if and only if
\* that edit was rejected with BadRequest, and directly after it; the text
\* never reaches the sender both ways.
C5_EditThenReply ==
    /\ \A w \in Workers :
         LET t == worker[w].trace
             m == worker[w].job.message.message_id
         IN  /\ \A i \in DOMAIN t :
                   t[i][1] = "reply_result"
                     => /\ i > 1 /\ t[i-1] = <<"edit_result", "bad_request">>
                        /\ t[i][2] \in {"ok", "error"} => HasTranscript(replies[m])
             /\ \A i \in DOMAIN t :
                   t[i][1] = "edit_result"
                     => /\ i > 1
                        /\ t[i-1] \in {<<"transcribe", "ok">>, <<"remove_audio", "ok">>}
                        /\ (t[i][2] = "bad_request")
                             <=> (IF i < Len(t) THEN t[i+1][1] = "reply_result"
                                                ELSE worker[w].pc = "reply_result")
             /\ worker[w].pc = "reply_result"
                   => t # <<>> /\ LastCall(w) = <<"edit_result", "bad_request">>
             /\ (m # 0 /\ HasTranscript(replies[m]))
                   => \E i \in DOMAIN t : t[i][1] = "reply_result"
    /\ \A m \in MsgIds :
         /\ HasTranscript(replies[m]) => statusText[m].kind # "transcript"
         /\ Cardinality({i \in DOMAIN replies[m] : replies[m][i].text.kind = "transcript"}) <= 1

\* the edit of a job's status message was rejected and the text was then
\* delivered as a new message
C5_Witness ==
    \E w \in Workers :
        LET t == worker[w].trace
            m == worker[w].job.message.message_id
        IN  /\ worker[w].pc = "get"
            /\ Len(t) >= 2
            /\ t[Len(t) - 1] = <<"edit_result", "bad_request">>
            /\ t[Len(t)] = <<"reply_result", "ok">>
            /\ replies[m] = <<[text |-> Transcript(worker[w].job.file_id), ok |-> TRUE]>>
            /\ delivered[m] = {"text"}

\* C6: when ffmpeg failed for a video job and the job has been processed to
\* its end, the job's audio temp file does not exist, the sender has
\* received an error message, and transcribe was not called for the job.
\* (Stated for the jobs whose temp files could all be removed; the claim
\* makes no such exception.)
C6_TranscoderFailure ==
    \A w \in Workers :
        LET t == worker[w].trace
            m == worker[w].job.message.message_id
        IN  (ProcessedCleanly(w) /\ <<"ffmpeg", "error">> \in Range(t))
               => /\ worker[w].audio_path \notin files
                  /\ "error" \in delivered[m]
                  /\ \A i \in DOMAIN t : t[i][1] # "transcribe"

\* the latest handle_media call was on a document of a whitelisted sender
DocumentHandled ==
    /\ HandlerCalled
    /\ lastUpdate'.kind = "document"
    /\ lastUpdate'.user_id \in ALLOWED_USER_IDS

\* the extension of a file name as the classifier reads it
ExtensionOf(name) == Lower(Suffix(name))

KnownMime(mime) == mime \in SUPPORTED_AUDIO_MIMES \cup SUPPORTED_VIDEO_MIMES

\* the handler took the document as a job of the given kind: it awaits the
\* creation of the status message of that job and has replied nothing
TakenAs(is_video) ==
    /\ h'.pc = "status_reply"
    /\ h'.message.message_id = lastUpdate'.message_id
    /\ h'.file_id # 0
    /\ h'.is_video = is_video
    /\ replies' = replies

\* C7: content-type has precedence over the extension: a document whose
\* content-type is a known video type is taken as Video whatever its file
\* name is.
C7_ContentTypePrecedence ==
    [][ (DocumentHandled /\ lastUpdate'.mime_type \in SUPPORTED_VIDEO_MIMES)
           => TakenAs(TRUE) ]_vars

\* C8 as claimed: a document whose content-type is absent or unrecognized
\* and whose extension is any known video extension is taken as Video.
C8_AnyVideoExtension ==
    [][ (/\ DocumentHandled
         /\ ~KnownMime(lastUpdate'.mime_type)
         /\ ExtensionOf(lastUpdate'.file_name) \in VIDEO_EXTENSIONS)
           => TakenAs(TRUE) ]_vars

\* C8 as amended: a document whose content-type is absent or unrecognized
\* and whose extension is a known video extension that is not also a known
\* audio extension is taken as Video.
C8_VideoOnlyExtension ==
    [][ (/\ DocumentHandled
         /\ ~KnownMime(lastUpdate'.mime_type)
         /\ ExtensionOf(lastUpdate'.file_name)
               \in VIDEO_EXTENSIONS \ AUDIO_EXTENSIONS)
           => TakenAs(TRUE) ]_vars

\* a document without a known content-type and with an upper-case video
\* extension is taken as a video job while another job waits
C8_Witness ==
    /\ lastUpdate.kind = "document"
    /\ lastUpdate.mime_type = "application/octet-stream"
    /\ lastUpdate.file_name = <<"a",".","M","k","v">>
    /\ h.pc = "status_reply"
    /\ h.is_video
    /\ h.message.message_id = lastUpdate.message_id
    /\ Len(media_queue) >= 1

\* C9: a document whose content-type is a known audio type is taken as
\* Audio whatever its file name is.
C9_AudioContentType ==
    [][ (DocumentHandled /\ lastUpdate'.mime_type \in SUPPORTED_AUDIO_MIMES)
           => TakenAs(FALSE) ]_vars

\* a document with an audio content-type and a video extension is taken as
\* an audio job
C9_Witness ==
    /\ lastUpdate.kind = "document"
    /\ lastUpdate.mime_type = "audio/ogg"
    /\ lastUpdate.file_name = <<"a",".","m","p","4">>
    /\ h.pc = "status_reply"
    /\ ~h.is_video
    /\ h.message.message_id = lastUpdate.message_id

\* C10: a document of a whitelisted sender whose content-type and extension
\* are in neither the audio nor the video sets is answered with the
\* unsupported-format text; no status message is created and the queue and
\* the handler are left as they were.
C10_UnsupportedNoJob ==
    [][ (/\ DocumentHandled
         /\ ~KnownMime(lastUpdate'.mime_type)
         /\ ExtensionOf(lastUpdate'.file_name)
               \notin AUDIO_EXTENSIONS \cup VIDEO_EXTENSIONS)
           => \E ok \in BOOLEAN :
                 OnlyReplied(lastUpdate'.message_id, UNSUPPORTED, ok) ]_vars

\* a document named ".mp4" (no suffix) with an unknown content-type was
\* answered with the unsupported-format text while a job was waiting
C10_Witness ==
    \E m \in MsgIds :
        /\ lastUpdate = Upd(m, 101, "document", "application/pdf", <<".","m","p","4">>)
        /\ replies[m] = <<[text |-> UNSUPPORTED, ok |-> TRUE]>>
        /\ statusText[m] = NoText
        /\ m \notin Range(enqOrder)
        /\ h.pc = "idle"
        /\ Len(media_queue) >= 1

\* the step is a step of handle_media (only it changes the handler's
\* position or takes the next update)
HandlerStep == h' # h \/ nextId' # nextId

\* the job the handler puts on the queue once its status message exists
JobOfHandler ==
    [file_id |-> h.file_id, message |-> h.message,
     status_msg |-> h.message.message_id, is_video |-> h.is_video,
     file_name |-> h.file_name]

\* whenever the handler waits for its status message, the step that puts the
\* job on the queue can be taken, whatever the queue holds and wherever the
\* worker is
PutNeverWaits ==
    h.pc = "status_reply" => ENABLED StatusReplyReturns(TRUE)

\* a step of the handler leaves every worker, the temp files, the order of
\* starts and completions and the messages of the jobs in progress as they
\* were, and changes the queue at most by appending its own job at the tail
HandlerLeavesWorker ==
    HandlerStep
       => /\ worker' = worker
          /\ startOrder' = startOrder
          /\ doneOrder' = doneOrder
          /\ files' = files
          /\ delivered' = delivered
          /\ \A m \in ActiveIds :
                statusText'[m] = statusText[m] /\ replies'[m] = replies[m]
          /\ \/ media_queue' = media_queue
             \/ /\ h.pc = "status_reply"
                /\ media_queue' = Append(media_queue, JobOfHandler)

\* C11: while a job is being processed handle_media still accepts media and
\* enqueues jobs without waiting: the put can always be taken, and no step
\* of the handler starts a job or changes the worker, the files or the
\* messages of the job in progress.
C11_EnqueueWhileProcessing ==
    []PutNeverWaits /\ [][HandlerLeavesWorker]_vars

\* a video job is being transcoded while the handler has accepted the next
\* message and waits for its status message before the put
C11_Witness ==
    \E w \in Workers :
        /\ worker[w].pc = "ffmpeg"
        /\ h.pc = "status_reply"
        /\ h.message.message_id # worker[w].job.message.message_id
        /\ phase = "running"

\* a call made for the job that a trace belongs to has raised, other than
\* an edit rejected with BadRequest (which the code passes over or answers
\* with a new message)
JobFailed(t) == \E i \in DOMAIN t : t[i][2] = "error"

\* no failure ends the worker: a worker has left its loop only after the
\* cancellation, and a worker that is not cancelled and has finished a job,
\* failed or not, takes the next job as soon as the queue holds one
WorkerOutlivesFailures ==
    \A w \in Workers :
        /\ worker[w].pc = "exited" => phase # "running"
        /\ (worker[w].pc = "get" /\ phase = "running" /\ media_queue # <<>>)
              => ENABLED WorkerGet(w)

\* C12: every error of a job is caught and turned into an error message for
\* the sender, and none ends the worker: a job that was processed to its end
\* and in which a call failed has the error message delivered, and the
\* worker leaves its loop only when cancelled and goes on to the next job.
\* (The first part is stated for the jobs whose temp files could all be
\* removed; the claim makes no such exception.)
C12_ErrorsReportedWorkerRuns ==
    /\ \A w \in Workers :
          (ProcessedCleanly(w) /\ JobFailed(worker[w].trace))
             => "error" \in delivered[worker[w].job.message.message_id]
    /\ WorkerOutlivesFailures

\* the text of a reply_text call on message m was of the given kind
Replied(m, kind) == \E i \in DOMAIN replies[m] : replies[m][i].text.kind = kind

\* C17: an edit of the status message that fails is answered by sending the
\* text as a new message, for the edit that delivers the transcription and
\* for the edit that delivers the error text: a failed result edit is
\* directly followed by reply_text, and a job that ended after a failed
\* error edit has had its error text sent with reply_text.
C17_EditFallback ==
    \A w \in Workers :
        LET t == worker[w].trace
            m == worker[w].job.message.message_id
        IN  \A i \in DOMAIN t :
               /\ (t[i][1] = "edit_result" /\ t[i][2] \in {"bad_request", "error"})
                     => IF i < Len(t) THEN t[i+1][1] = "reply_result"
                                      ELSE worker[w].pc = "reply_result"
               /\ (t[i][1] = "edit_error" /\ t[i][2] \in {"bad_request", "error"})
                     => Replied(m, "error")

JobFiles(w) == {worker[w].download_path, worker[w].audio_path}

\* worker w has processed a job to the end
Processed(w) ==
    /\ worker[w].pc = "get"
    /\ worker[w].job.message.message_id \in FinishedIds

JobStates == <<"get_file", "download", "ffmpeg", "transcribe">>

\* the places of call op in a trace
Idx(t, op) == { i \in DOMAIN t : t[i][1] = op }

\* call op returned successfully before the place i of trace t
OkBefore(t, op, i) == \E j \in 1..(i - 1) : t[j] = <<op, "ok">>

\* the place where the next call of worker w will be recorded
Now(w) == Len(worker[w].trace) + 1

\* C15: a job moves along Downloading, ExtractingAudio (video only),
\* Transcribing and never back: each of get_file, download, ffmpeg and
\* transcribe is invoked at most once per job and in this order, each only
\* after the one before it succeeded; ffmpeg is invoked for video jobs
\* only; transcribe is invoked for a video job only after ffmpeg succeeded
\* and the video file was removed; after a failed state no other follows.
C15_JobStateOrder ==
    \A w \in Workers :
        LET t   == worker[w].trace
            job == worker[w].job
            At(op) == IF worker[w].pc = op THEN {Now(w)} ELSE Idx(t, op)
        IN  /\ \A k \in DOMAIN JobStates :
                  /\ Cardinality(Idx(t, JobStates[k])) <= 1
                  /\ worker[w].pc = JobStates[k] => Idx(t, JobStates[k]) = {}
            /\ \A i \in At("download") : OkBefore(t, "get_file", i)
            /\ \A i \in At("ffmpeg") : job.is_video /\ OkBefore(t, "download", i)
            /\ \A i \in At("transcribe") :
                  /\ OkBefore(t, "download", i)
                  /\ job.is_video
                        => /\ OkBefore(t, "ffmpeg", i)
                           /\ \E j \in 1..(i - 1) :
                                 /\ t[j] = <<"remove_download", "ok">>
                                 /\ OkBefore(t, "ffmpeg", j)
            /\ (worker[w].pc = "transcribe" /\ job.is_video)
                  => worker[w].download_path \notin files
            /\ \A k \in DOMAIN JobStates : \A i \in Idx(t, JobStates[k]) :
                  t[i][2] = "error"
                     => /\ \A n \in DOMAIN JobStates :
                              \A j \in At(JobStates[n]) : j <= i
                        /\ worker[w].pc \in {"edit_error", "get", "exited"}

\* the transcription of a video job is awaited: the audio was extracted,
\* the video file is gone and the audio file is there
C15_Witness ==
    \E w \in Workers :
        /\ worker[w].pc = "transcribe"
        /\ worker[w].job.is_video
        /\ <<"ffmpeg", "ok">> \in Range(worker[w].trace)
        /\ worker[w].download_path \notin files
        /\ worker[w].audio_path \in files

\* what a step does once the worker task is cancelled: the only step of a
\* worker is to leave its loop, recording at most that the call it waited
\* for was cancelled; no job is dequeued, no call is started and no temp
\* file is removed
CancelledStep ==
    /\ startOrder' = startOrder
    /\ IsPrefix(media_queue, media_queue')
    /\ files \subseteq files'
    /\ \A w \in Workers :
          worker'[w] # worker[w]
             => /\ worker[w].pc # "exited"
                /\ worker'[w].pc = "exited"
                /\ worker'[w].job = worker[w].job
                /\ worker'[w].trace \in
                      { worker[w].trace,
                        Append(worker[w].trace, <<worker[w].pc, "cancelled">>) }

\* the cancelled worker can leave its loop wherever it waits, and once it
\* has, the application can stop whatever the queue holds
ShutdownNeverWaits ==
    /\ \A w \in Workers :
          (phase = "cancelling" /\ worker[w].pc # "exited")
             => ENABLED WorkerCancelled(w, FALSE)
    /\ (phase = "cancelling" /\ h.pc = "idle"
            /\ \A w \in Workers : worker[w].pc = "exited")
          => ENABLED StopApplication
    /\ phase = "stopped" => \A w \in Workers : worker[w].pc = "exited"

\* C16: once the worker task is cancelled, the worker leaves its loop at
\* the await it is suspended at, on the empty queue or inside a job; it
\* dequeues no further job, starts no further call for the interrupted job
\* (no removal of temp files, no error message), and the shutdown goes on
\* without the queue being empty.
C16_CancelExitsLoop ==
    []ShutdownNeverWaits /\ [][phase # "running" => CancelledStep]_vars

\* the application has stopped after the worker was cancelled while it
\* waited for the transcription: another job is still in the queue, the
\* file of the interrupted job is still there and its sender got nothing
C16_Witness ==
    \E w \in Workers :
        LET m == worker[w].job.message.message_id
        IN  /\ phase = "stopped"
            /\ worker[w].pc = "exited"
            /\ worker[w].trace # <<>>
            /\ LastCall(w) = <<"transcribe", "cancelled">>
            /\ Len(media_queue) >= 1
            /\ worker[w].audio_path \in files
            /\ delivered[m] = {}
            /\ statusText[m] = TRANSCRIBING
            /\ m \in Range(doneOrder)

\* no element occurs twice in sequence s
NoDuplicates(s) == \A i, j \in DOMAIN s : s[i] = s[j] => i = j

\* C18: nothing is retried: for each job download, ffmpeg and transcribe
\* (and get_file) are invoked at most once; a job is put on the queue once
\* and dequeued once, and is never in the queue again after it was
\* dequeued; the error text of a job is sent at most once, by one edit of
\* its status message and never by reply_text.
C18_NoRetry ==
    /\ \A w \in Workers :
          LET t == worker[w].trace
          IN  \A op \in {"get_file", "download", "ffmpeg", "transcribe", "edit_error"} :
                 Cardinality(Idx(t, op)) + (IF worker[w].pc = op THEN 1 ELSE 0) <= 1
    /\ NoDuplicates(enqOrder)
    /\ NoDuplicates(startOrder)
    /\ NoDuplicates(doneOrder)
    /\ QueuedIds \cap Range(startOrder) = {}
    /\ \A m \in MsgIds : ~Replied(m, "error")

\* a job whose transcription failed was reported once and is over: the
\* queue is empty and the worker waits for the next job
C18_Witness ==
    \E w \in Workers :
        LET t == worker[w].trace
            m == worker[w].job.message.message_id
        IN  /\ worker[w].pc = "get"
            /\ phase = "running"
            /\ media_queue = <<>>
            /\ Len(t) >= 2
            /\ <<"transcribe", "error">> \in Range(t)
            /\ LastCall(w) = <<"edit_error", "ok">>
            /\ statusText[m] = ErrorText(worker[w].job.file_id, "transcribe")
            /\ delivered[m] = {"error"}
            /\ m \in Range(doneOrder)

\* the update is media the bot takes from a whitelisted sender: a voice
\* note, a video note, an audio file, a video file, or a document that the
\* classifier takes for audio or video
Accepted(u) ==
    /\ u.user_id \in ALLOWED_USER_IDS
    /\ \/ u.kind \in {"voice", "video_note", "audio", "video"}
       \/ /\ u.kind = "document"
          /\ \/ is_audio_file(u.mime_type, u.file_name)
             \/ is_video_file(u.mime_type, u.file_name)

\* handle_media on accepted media sends nothing but the status message: it
\* awaits the reply_text that creates it, and has not touched the queue
StatusRequested ==
    (HandlerCalled /\ Accepted(lastUpdate'))
       => /\ h'.pc = "status_reply"
          /\ h'.message = Message(lastUpdate')
          /\ h'.file_id # 0
          /\ replies' = replies
          /\ statusText' = statusText
          /\ media_queue' = media_queue

\* the step is the return of the reply_text that creates the status message
StatusReplyReturned == h.pc = "status_reply" /\ h'.pc = "idle"

\* the status message of the handler's message now exists, with the text
\* for the kind of its job, and exactly the job that carries it was added
\* at the tail of the queue
StatusCreatedJobPut ==
    LET m == h.message.message_id
    IN  /\ statusText[m] = NoText
        /\ statusText' = [statusText EXCEPT ![m] =
               IF h.is_video THEN PROCESSING_VIDEO ELSE TRANSCRIBING]
        /\ media_queue' = Append(media_queue, JobOfHandler)
        /\ JobOfHandler.status_msg = m
        /\ enqOrder' = Append(enqOrder, m)
        /\ unfinished_tasks' = unfinished_tasks + 1

\* C19 as claimed: every accepted media event creates exactly one status
\* message and then puts exactly one job carrying it on the queue.
C19_OneStatusOneJob ==
    [][ /\ StatusRequested
        /\ StatusReplyReturned => StatusCreatedJobPut ]_vars

\* a message has a status message exactly if a job was put on the queue
\* for it, once, and every waiting job carries the status message of its
\* own message
StatusAndJobPaired ==
    /\ NoDuplicates(enqOrder)
    /\ \A m \in MsgIds : statusText[m] # NoText <=> m \in Range(enqOrder)
    /\ \A i \in DOMAIN media_queue :
          media_queue[i].status_msg = media_queue[i].message.message_id

\* C19 as amended: every accepted media event requests exactly one status
\* message; when that reply_text succeeds, the status message exists and
\* exactly one job carrying it is put on the queue; when it fails, there is
\* no status message and no job.
C19_OneStatusOneJobIfSent ==
    /\ []StatusAndJobPaired
    /\ [][ /\ StatusRequested
           /\ StatusReplyReturned
                 => IF faults' = faults
                      THEN StatusCreatedJobPut
                      ELSE /\ statusText' = statusText
                           /\ media_queue' = media_queue
                           /\ enqOrder' = enqOrder ]_vars

\* a document without content type, taken for audio by its upper-case
\* extension, has its status message and its job behind an earlier job
C19_Witness ==
    \E m \in MsgIds :
        /\ lastUpdate = Upd(m, 101, "document", "", <<"a",".","M","P","3">>)
        /\ h.pc = "idle"
        /\ statusText[m] = TRANSCRIBING
        /\ Len(media_queue) = 2
        /\ media_queue[2].status_msg = m
        /\ media_queue[2].message.message_id = m
        /\ ~media_queue[2].is_video
        /\ enqOrder[Len(enqOrder)] = m
        /\ faults = 0

\* the text is the outcome of a job: a transcription or an error text
IsOutcome(text) == text.kind \in {"transcript", "error"}

\* C20: the outcome of a job reaches only that job's own messages: a status
\* message that shows a transcription or an error text shows the one made
\* for the file of its own message, and every transcription or error text
\* sent with reply_text is a reply to the message it was made for.
C20_OwnOutcomeOnly ==
    \A m \in MsgIds :
        /\ IsOutcome(statusText[m]) => statusText[m].of = m
        /\ \A i \in DOMAIN replies[m] :
              IsOutcome(replies[m][i].text) => replies[m][i].text.of = m
        /\ delivered[m] # {} => m \in Range(startOrder)

\* two jobs of different senders are over: the video of the first sender
\* failed in ffmpeg and its status message shows its error, the voice note
\* of the second sender shows its own transcription
C20_Witness ==
    \E w \in Workers :
        /\ worker[w].pc = "get"
        /\ Len(doneOrder) = 2
        /\ worker[w].job.message.message_id = doneOrder[2]
        /\ worker[w].job.message.user_id = 102
        /\ statusText[doneOrder[2]] = Transcript(doneOrder[2])
        /\ statusText[doneOrder[1]] =
              ErrorText(doneOrder[1], "Failed to extract audio from video")
        /\ delivered[doneOrder[1]] = {"error"}
        /\ delivered[doneOrder[2]] = {"text"}

====
